---- MODULE Spec2Model ----
(***************************************************************************)
(* Model of policy/postgres/postgres.go: the Postgres-backed policy store   *)
(* of ladon.  The state is the content of the four tables created by        *)
(* `schemas`, the transaction each running Create holds, and the position   *)
(* and locals of every caller inside Create, Get, Delete and                *)
(* FindPoliciesForSubject.  Every backend round trip (Exec, Query, Begin,   *)
(* Commit, Rollback) is one atomic step; callers interleave between them.   *)
(*                                                                          *)
(* Strings are sequences of one-character strings so that the conversions   *)
(* the store relies on (the uuid column's canonical text, the template      *)
(* compiler, the case-insensitive regular-expression operator) are          *)
(* computed, not assumed.                                                    *)
(***************************************************************************)
EXTENDS Integers, Sequences, FiniteSets, TLC

(***************************************************************************)
(* Bounds of the model.                                                     *)
(***************************************************************************)
\* Number of concurrent callers of the store.
NumProcs == 2
\* Number of operations concurrent callers start in all.
MaxOps == 3
\* Number of operations made one after the other.
MaxSeqOps == 4
\* Number of queries that break off while their rows are read.
MaxBroken == 1
Procs == 1..NumProcs

(***************************************************************************)
(* Characters and strings.                                                  *)
(***************************************************************************)
\* Lower-case folding of one character, as the uuid output function and the
\* case-insensitive regex operator ~* apply it.
Lower(c) ==
    IF c = "A" THEN "a"
    ELSE IF c = "B" THEN "b"
    ELSE c

RECURSIVE LowerStr(_)
LowerStr(s) ==
    IF s = <<>> THEN <<>> ELSE <<Lower(Head(s))>> \o LowerStr(Tail(s))

\* Hexadecimal digits, the only characters a uuid literal is made of
\* (hyphens and the fixed length of a real uuid are left out).
HexDigits == {"a", "b", "A", "B", "1", "2"}

\* Whether Postgres accepts the text as input for a uuid column or
\* parameter (ladon_policy.id and the policy columns are of type uuid).
IsUUID(id) == id /= <<>> /\ \A i \in 1..Len(id) : id[i] \in HexDigits

\* The text Postgres returns for a uuid value: lower-case canonical form.
CanonUUID(id) == LowerStr(id)

(***************************************************************************)
(* Template compiler (compiler.CompileRegex of ory-am/common, called by     *)
(* createLink).  A compiled pattern is a sequence of units; a unit matches  *)
(* one character (`any`: every character, else the character `ch`) and,     *)
(* with `plus`, one or more of them.                                        *)
(***************************************************************************)
StartDelimiter == "<"
EndDelimiter == ">"

Unit(any, ch, plus) == [any |-> any, ch |-> ch, plus |-> plus]

\* Literal text outside the delimiters is quoted: every character matches
\* only itself.
RECURSIVE QuoteMeta(_)
QuoteMeta(raw) ==
    IF raw = <<>> THEN <<>>
    ELSE <<Unit(FALSE, Head(raw), FALSE)>> \o QuoteMeta(Tail(raw))

\* Result of a compilation: a pattern, or the failure (in Go a nil
\* *regexp.Regexp together with an error).
Compiled(units) == [ok |-> TRUE, re |-> units]
CompileError == [ok |-> FALSE, re |-> <<>>]

\* The regular-expression fragment between the delimiters, inserted
\* verbatim: `.` is any character, a trailing `+` repeats the unit before
\* it; a `+` with nothing to repeat is not a regular expression.
RECURSIVE ParseFragment(_)
ParseFragment(f) ==
    IF f = <<>> THEN Compiled(<<>>)
    ELSE IF Head(f) = "+" THEN CompileError
    ELSE LET plus == Len(f) >= 2 /\ f[2] = "+"
             rest == ParseFragment(IF plus THEN Tail(Tail(f)) ELSE Tail(f))
         IN  IF ~rest.ok THEN CompileError
             ELSE Compiled(<<Unit(Head(f) = ".", Head(f), plus)>> \o rest.re)

\* Index of the end delimiter closing the start delimiter at nesting
\* `level`, scanning from position i; 0 when the template ends first.
RECURSIVE ClosingIndex(_, _, _)
ClosingIndex(tpl, i, level) ==
    IF i > Len(tpl) THEN 0
    ELSE IF tpl[i] = StartDelimiter THEN ClosingIndex(tpl, i + 1, level + 1)
    ELSE IF tpl[i] = EndDelimiter
         THEN IF level = 1 THEN i ELSE ClosingIndex(tpl, i + 1, level - 1)
    ELSE ClosingIndex(tpl, i + 1, level)

\* The anchored pattern of the template from position i on; fails when the
\* delimiters are unbalanced or a fragment is not a regular expression.
RECURSIVE CompileFrom(_, _)
CompileFrom(tpl, i) ==
    IF i > Len(tpl) THEN Compiled(<<>>)
    ELSE IF tpl[i] = EndDelimiter THEN CompileError
    ELSE IF tpl[i] = StartDelimiter
         THEN LET j == ClosingIndex(tpl, i + 1, 1)
              IN  IF j = 0 THEN CompileError
                  ELSE LET frag == ParseFragment(SubSeq(tpl, i + 1, j - 1))
                           rest == CompileFrom(tpl, j + 1)
                       IN  IF ~frag.ok \/ ~rest.ok THEN CompileError
                           ELSE Compiled(frag.re \o rest.re)
    ELSE LET rest == CompileFrom(tpl, i + 1)
         IN  IF ~rest.ok THEN CompileError
             ELSE Compiled(QuoteMeta(<<tpl[i]>>) \o rest.re)

CompileRegex(tpl) == CompileFrom(tpl, 1)

\* Whether the whole of s is matched by the units (the pattern is anchored
\* at both ends); `fold` compares letters without regard to case.
UnitMatches(u, c, fold) ==
    \/ u.any
    \/ IF fold THEN Lower(u.ch) = Lower(c) ELSE u.ch = c

RECURSIVE RegexMatch(_, _, _)
RegexMatch(units, s, fold) ==
    IF units = <<>> THEN s = <<>>
    ELSE IF s = <<>> THEN FALSE
    ELSE /\ UnitMatches(Head(units), Head(s), fold)
         /\ \/ RegexMatch(Tail(units), Tail(s), fold)
            \/ Head(units).plus /\ RegexMatch(units, Tail(s), fold)

(***************************************************************************)
(* Data model.                                                              *)
(***************************************************************************)
\* A policy as handed to Create (the Policy interface) and as returned by
\* Get (DefaultPolicy).  `conditions` keeps apart the nil collection and
\* the collection of `items`.
Conditions(isNil, items) == [isNil |-> isNil, items |-> items]

Policy(id, description, effect, conditions, subjects, permissions, resources) ==
    [id |-> id, description |-> description, effect |-> effect,
     conditions |-> conditions, subjects |-> subjects,
     permissions |-> permissions, resources |-> resources]

\* The zero DefaultPolicy Get starts from (var p DefaultPolicy).
ZeroPolicy == Policy(<<>>, <<>>, "", Conditions(TRUE, <<>>), <<>>, <<>>, <<>>)

\* json.Marshal of the conditions; "[]" when the policy has none.
MarshalConditions(c) ==
    IF c.isNil THEN <<"[", "]">> ELSE <<"[">> \o c.items \o <<"]">>

\* json.Unmarshal of the stored text into p.Conditions.
UnmarshalConditions(text) == Conditions(FALSE, SubSeq(text, 2, Len(text) - 1))

(***************************************************************************)
(* Tables (schemas).                                                        *)
(***************************************************************************)
PolicyTable == "ladon_policy"
SubjectTable == "ladon_policy_subject"
PermissionTable == "ladon_policy_permission"
ResourceTable == "ladon_policy_resource"
LinkTables == {SubjectTable, PermissionTable, ResourceTable}
Tables == {PolicyTable} \cup LinkTables

EmptyTables == [t \in Tables |-> {}]

PolicyRow(id, description, effect, conditions) ==
    [id |-> id, description |-> description, effect |-> effect,
     conditions |-> conditions]

LinkRow(policy, template, compiled) ==
    [policy |-> policy, template |-> template, compiled |-> compiled]

\* Rows of both row sets, table by table (what a transaction sees: the
\* committed rows and its own).
Merge(a, b) == [t \in Tables |-> a[t] \cup b[t]]

\* Error texts.
ErrNone == ""
ErrNotFound == "pkg.ErrNotFound"
ErrTxDone == "sql.ErrTxDone"
ErrBackend == "backend failure"
ErrRollback == "rollback failure"
ErrInvalidUUID == "pq: invalid input syntax for uuid"
ErrCheck == "pq: check constraint violation"
ErrUnique == "pq: unique constraint violation"
ErrForeignKey == "pq: foreign key violation"

\* Mutant of InsertPolicyError: ladon_policy has no primary key.
InsertPolicyNoKey(seen, policy) ==
    IF ~IsUUID(policy.id) THEN ErrInvalidUUID
    ELSE IF policy.effect \notin {"allow", "deny"} THEN ErrCheck
    ELSE ErrNone

\* Mutant of InsertPolicyError: ladon_policy has no CHECK on the effect.
InsertPolicyNoCheck(seen, policy) ==
    IF ~IsUUID(policy.id) THEN ErrInvalidUUID
    ELSE IF \E r \in seen[PolicyTable] : r.id = CanonUUID(policy.id)
         THEN ErrUnique
    ELSE ErrNone

\* INSERT INTO ladon_policy: the error the statement ends with against the
\* rows `seen`, ErrNone when the row is accepted.
InsertPolicyError(seen, policy) ==
    IF ~IsUUID(policy.id) THEN ErrInvalidUUID
    ELSE IF policy.effect \notin {"allow", "deny"} THEN ErrCheck
    ELSE IF \E r \in seen[PolicyTable] : r.id = CanonUUID(policy.id)
         THEN ErrUnique
    ELSE ErrNone

\* Mutant of InsertLinkError: the link tables have no primary key.
InsertLinkNoKey(seen, table, id, template) ==
    IF ~\E r \in seen[PolicyTable] : r.id = CanonUUID(id)
    THEN ErrForeignKey
    ELSE ErrNone

\* INSERT INTO <link table>: PRIMARY KEY (template, policy) and the
\* reference to ladon_policy.
InsertLinkError(seen, table, id, template) ==
    IF \E r \in seen[table] :
            r.template = template /\ r.policy = CanonUUID(id)
    THEN ErrUnique
    ELSE IF ~\E r \in seen[PolicyTable] : r.id = CanonUUID(id)
         THEN ErrForeignKey
    ELSE ErrNone

\* Mutant of DeleteRows: the link tables do not cascade.
DeletePolicyOnly(rows, id) ==
    [t \in Tables |->
        IF t = PolicyTable
        THEN {r \in rows[t] : r.id /= CanonUUID(id)}
        ELSE rows[t]]

\* DELETE FROM ladon_policy WHERE id=$1, with ON DELETE CASCADE of the three
\* link tables.
DeleteRows(rows, id) ==
    [t \in Tables |->
        IF t = PolicyTable
        THEN {r \in rows[t] : r.id /= CanonUUID(id)}
        ELSE {r \in rows[t] : r.policy /= CanonUUID(id)}]

\* SELECT ... FROM ladon_policy WHERE id=$1.
SelectPolicy(rows, id) == {r \in rows[PolicyTable] : r.id = CanonUUID(id)}

\* SELECT template FROM <table> WHERE policy=$1.
SelectLinked(rows, table, id) ==
    {r \in rows[table] : r.policy = CanonUUID(id)}

\* SELECT policy FROM ladon_policy_subject
\*   WHERE $1 ~* ('^' || compiled || '$').
SubjectMatches(compiled, subject) == RegexMatch(compiled, subject, TRUE)

SelectSubjects(rows, subject) ==
    {r \in rows[SubjectTable] : SubjectMatches(r.compiled, subject)}

\* SELECT id FROM ladon_policy p LEFT JOIN ladon_policy_subject ps
\*   ON p.id = ps.policy WHERE ps.policy IS NULL.
SelectGlobals(rows) ==
    {r \in rows[PolicyTable] :
        ~\E ps \in rows[SubjectTable] : ps.policy = r.id}

\* The orders in which a query without ORDER BY may return a set of rows.
RECURSIVE Orders(_)
Orders(S) ==
    IF S = {} THEN {<<>>}
    ELSE UNION {{<<r>> \o o : o \in Orders(S \ {r})} : r \in S}

\* What a loop `for rows.Next()` collects from the rows of a query: all of
\* them in some order or, when the connection breaks while they are read,
\* only the first ones; rows.Next() returns false in both cases and
\* rows.Err() is not asked, so the caller cannot tell (`failed`).
Scanned(S) ==
    {[rows |-> o, failed |-> FALSE] : o \in Orders(S)}
        \cup UNION {{[rows |-> SubSeq(o, 1, n), failed |-> TRUE] :
                       n \in 0..(Len(o) - 1)} : o \in Orders(S)}

\* One column of a sequence of rows.
Column(rowSeq, col) == [i \in 1..Len(rowSeq) |-> rowSeq[i][col]]

(***************************************************************************)
(* State.                                                                   *)
(***************************************************************************)
VARIABLES
    db,        \* committed rows of the four tables
    tx,        \* per caller: the transaction of its Create (sql.Tx)
    locked,    \* policy ids inserted by transactions abandoned while open
    pc,        \* per caller: where it stands inside its operation
    op,        \* per caller: the operation it called last and its arguments
    loc,       \* per caller: local variables of the running operation
    ret,       \* per caller: what its last operation returned
    nops,      \* operations started so far
    broken,    \* queries that broke off while their rows were read
    live,      \* history: policies whose Create committed, not deleted since
    deleted    \* history: policies whose Create committed, deleted later

vars == <<db, tx, locked, pc, op, loc, ret, nops, broken, live, deleted>>

NoTable == "none"

\* sql.Tx: no transaction, or one that is open, aborted, committed or
\* rolled back, with the rows it has written.
NoTx == [state |-> "none", rows |-> EmptyTables]
OpenTx(rows) == [state |-> "open", rows |-> rows]
ClosedTx(state) == [state |-> state, rows |-> EmptyTables]

\* The transaction after one of its statements has failed at the server:
\* the server has aborted it, its rows are dead and its locks released,
\* while the sql.Tx is not finished and keeps its connection until
\* tx.Rollback() is called.
AbortedTx == ClosedTx("aborted")

NoOp == [name |-> "none", policy |-> ZeroPolicy, id |-> <<>>, subject |-> <<>>]
Call(name, policy, id, subject) ==
    [name |-> name, policy |-> policy, id |-> id, subject |-> subject]

\* `err` is the error of createLink's tx.Exec while it rolls back; `failed`
\* tells that a query of the operation broke off while its rows were read.
NoLocals ==
    [table |-> NoTable, i |-> 0, id |-> <<>>, p |-> ZeroPolicy,
     ids |-> <<>>, policies |-> <<>>, err |-> ErrNone, failed |-> FALSE]

\* A return: kind is "ok", "error" or "panic"; `policies` is the value
\* (Get: one policy, FindPoliciesForSubject: the list); `stage` names the
\* statement the error comes from and `i` its position in the template
\* list.  History, not seen by the caller: `count` is the number of policy
\* rows a DELETE removed, `hidden` the policy ids that open transactions
\* had written when the operation made its last call of the backend,
\* `first` the error of the first call that failed in the operation.
NoReturn ==
    [kind |-> "none", err |-> ErrNone, policies |-> <<>>,
     stage |-> "", i |-> 0, count |-> 0, hidden |-> {}, first |-> ErrNone]
Ok(policies) ==
    [kind |-> "ok", err |-> ErrNone, policies |-> policies,
     stage |-> "", i |-> 0, count |-> 0, hidden |-> {}, first |-> ErrNone]
Error(err, stage, i) ==
    [kind |-> "error", err |-> err, policies |-> <<>>,
     stage |-> stage, i |-> i, count |-> 0, hidden |-> {}, first |-> err]
Panic(stage, i) ==
    [kind |-> "panic", err |-> ErrNone, policies |-> <<>>,
     stage |-> stage, i |-> i, count |-> 0, hidden |-> {}, first |-> ErrNone]

Init ==
    /\ db = EmptyTables
    /\ tx = [p \in Procs |-> NoTx]
    /\ locked = {}
    /\ pc = [p \in Procs |-> "idle"]
    /\ op = [p \in Procs |-> NoOp]
    /\ loc = [p \in Procs |-> NoLocals]
    /\ ret = [p \in Procs |-> NoReturn]
    /\ nops = 0
    /\ broken = 0
    /\ live = {}
    /\ deleted = {}

\* A caller enters an operation; what its last one returned is gone (the
\* actions that do not return at once reset ret).  A transaction its previous Create left
\* open stays open for good and keeps the policy id it inserted locked.
\* Callers are interchangeable, so they make their first calls in the order
\* of their numbers.
Enter(p, call) ==
    /\ pc[p] = "idle"
    /\ \A q \in Procs : q < p => op[q].name /= "none"
    /\ nops' = nops + 1
    /\ op' = [op EXCEPT ![p] = call]
    /\ locked' = locked \cup
          (IF tx[p].state = "open"
           THEN {r.id : r \in tx[p].rows[PolicyTable]} ELSE {})

\* The policy ids written by transactions that are open: those of the
\* callers' current transactions and those of the transactions abandoned
\* while open, which stay open at the server.
Uncommitted ==
    locked \cup {r.id : r \in UNION {tx[q].rows[PolicyTable] : q \in Procs}}

\* The return of a read, with the history of what was hidden from it.
Read(r) == [r EXCEPT !.hidden = Uncommitted]

\* The scan s of a query's rows takes place: one more query has broken off
\* if it is a partial one.
BreaksOff(s) ==
    /\ s.failed => broken < MaxBroken
    /\ broken' = broken + (IF s.failed THEN 1 ELSE 0)

\* The return r of an operation in which a query broke off unnoticed
\* (`failed`): what the caller gets is the same, the history is not.
Unnoticed(r, failed) == IF failed THEN [r EXCEPT !.first = ErrBackend] ELSE r

\* The operation of p returns r; its locals are gone.
Return(p, r) ==
    /\ pc' = [pc EXCEPT ![p] = "idle"]
    /\ ret' = [ret EXCEPT ![p] = r]
    /\ loc' = [loc EXCEPT ![p] = NoLocals]

\* Any call of the backend may fail for reasons outside the store (the
\* connection is lost, the server is out of resources).
BackendFails == TRUE

History == <<live, deleted>>

\* history: every policy whose Create committed.
Created == live \cup deleted

(***************************************************************************)
(* Create (lines 61-89) and createLink (lines 187-201).                     *)
(***************************************************************************)
Templates(policy, table) ==
    IF table = SubjectTable THEN policy.subjects
    ELSE IF table = PermissionTable THEN policy.permissions
    ELSE IF table = ResourceTable THEN policy.resources
    ELSE <<>>

\* Create links the subjects, then the permissions, then the resources.
TableAfter(table) ==
    IF table = SubjectTable THEN PermissionTable
    ELSE IF table = PermissionTable THEN ResourceTable
    ELSE NoTable

\* The template createLink handles next, from position i of `table` on;
\* NoTable when every template is inserted and Create goes on to commit.
RECURSIVE LinkPosition(_, _, _)
LinkPosition(policy, table, i) ==
    IF table = NoTable THEN [table |-> NoTable, i |-> 0]
    ELSE IF i <= Len(Templates(policy, table)) THEN [table |-> table, i |-> i]
    ELSE LinkPosition(policy, TableAfter(table), 1)

\* Whether another open transaction has inserted the policy id: the INSERT
\* then waits for that transaction to end.
IdLocked(p, id) ==
    \/ CanonUUID(id) \in locked
    \/ \E q \in Procs \ {p} :
          /\ tx[q].state = "open"
          /\ \E r \in tx[q].rows[PolicyTable] : r.id = CanonUUID(id)

\* s.db.Begin() (line 71).
Create(p, policy) ==
    /\ Enter(p, Call("Create", policy, policy.id, <<>>))
    /\ UNCHANGED <<db, History, broken>>
    /\ \/ /\ BackendFails
          /\ tx' = [tx EXCEPT ![p] = NoTx]
          /\ Return(p, Error(ErrBackend, "begin", 0))
       \/ /\ tx' = [tx EXCEPT ![p] = OpenTx(EmptyTables)]
          /\ pc' = [pc EXCEPT ![p] = "insertPolicy"]
          /\ loc' = [loc EXCEPT ![p] = NoLocals]
          /\ ret' = [ret EXCEPT ![p] = NoReturn]

\* Mutant of TxExec: the statement runs on the pool (s.db.Exec) instead of
\* the transaction, so its row is committed at once.
TxExecOnPool(rows, txRows, table, row) ==
    [db |-> [rows EXCEPT ![table] = @ \cup {row}], tx |-> txRows]

\* tx.Exec: the statement's row is written inside the transaction and is
\* not among the committed rows.
TxExec(rows, txRows, table, row) ==
    [db |-> rows, tx |-> [txRows EXCEPT ![table] = @ \cup {row}]]

\* Mutant of Rollback: the error path ends the transaction with Commit.
RollbackCommits(rows, txRows) == Merge(rows, txRows)

\* Mutant of Rollback: the rollback discards the committed rows as well.
RollbackAll(rows, txRows) == EmptyTables

\* tx.Rollback(): the committed rows once the transaction's are discarded.
Rollback(rows, txRows) == rows

\* tx.Commit(): the transaction's rows join the committed ones.
CommitRows(rows, txRows) == Merge(rows, txRows)

\* Create goes on to the template at `next`, or to the commit.
Continue(p, next) ==
    /\ loc' = [loc EXCEPT ![p].table = next.table, ![p].i = next.i]
    /\ pc' = [pc EXCEPT ![p] =
          IF next.table = NoTable THEN "commit" ELSE "createLink"]
    /\ UNCHANGED ret

\* tx.Exec("INSERT INTO ladon_policy ...") (line 73).  On an error Create
\* returns it and leaves the transaction as it is: aborted by the server
\* when the statement has failed there, never finished.  The id's input syntax
\* and the CHECK of the effect are decided before the row reaches the
\* primary-key index; only there the statement waits for an open
\* transaction that has inserted the same id.
InsertPolicy(p) ==
    /\ pc[p] = "insertPolicy"
    /\ LET policy == op[p].policy
           err == InsertPolicyError(Merge(db, tx[p].rows), policy)
           row == PolicyRow(CanonUUID(policy.id), policy.description,
                            policy.effect, MarshalConditions(policy.conditions))
           w == TxExec(db, tx[p].rows, PolicyTable, row)
       IN  /\ UNCHANGED <<locked, op, nops, History, broken>>
           /\ \/ /\ BackendFails
                 /\ Return(p, Error(ErrBackend, PolicyTable, 0))
                 /\ UNCHANGED <<db, tx>>
              \/ /\ err \in {ErrInvalidUUID, ErrCheck}
                 /\ Return(p, Error(err, PolicyTable, 0))
                 /\ tx' = [tx EXCEPT ![p] = AbortedTx]
                 /\ UNCHANGED db
              \/ /\ err = ErrUnique
                 /\ ~IdLocked(p, policy.id)
                 /\ Return(p, Error(err, PolicyTable, 0))
                 /\ tx' = [tx EXCEPT ![p] = AbortedTx]
                 /\ UNCHANGED db
              \/ /\ err = ErrNone
                 /\ ~IdLocked(p, policy.id)
                 /\ db' = w.db
                 /\ tx' = [tx EXCEPT ![p] = OpenTx(w.tx)]
                 /\ Continue(p, LinkPosition(policy, SubjectTable, 1))

\* One round of createLink's loop (lines 188-193): compile the template and
\* insert its row; on an error go on to the rollback.  A template that does
\* not compile leaves reg nil, and reg.String() dereferences it.  A
\* statement the server rejects aborts the transaction at once, before
\* tx.Rollback() is called: its rows are dead and the policy id is free for
\* other callers.  When the call fails otherwise (the connection is lost,
\* the server is out of resources) the server has ended the transaction by
\* then or has not.
CreateLink(p) ==
    /\ pc[p] = "createLink"
    /\ LET policy == op[p].policy
           table == loc[p].table
           i == loc[p].i
           template == Templates(policy, table)[i]
           reg == CompileRegex(template)
           err == InsertLinkError(Merge(db, tx[p].rows), table, policy.id, template)
           row == LinkRow(CanonUUID(policy.id), template, reg.re)
           w == TxExec(db, tx[p].rows, table, row)
       IN  /\ UNCHANGED <<locked, op, nops, History, broken>>
           /\ \/ /\ ~reg.ok
                 /\ Return(p, Panic(table, i))
                 /\ UNCHANGED <<db, tx>>
              \/ /\ reg.ok
                 /\ \E execFails, aborted \in BOOLEAN :
                       /\ execFails \/ err /= ErrNone
                       /\ execFails \/ aborted
                       /\ loc' = [loc EXCEPT ![p].err =
                                    IF execFails THEN ErrBackend ELSE err]
                       /\ tx' = [tx EXCEPT ![p] =
                                    IF aborted THEN AbortedTx ELSE @]
                 /\ pc' = [pc EXCEPT ![p] = "rollback"]
                 /\ UNCHANGED <<db, ret>>
              \/ /\ reg.ok /\ err = ErrNone
                 /\ db' = w.db
                 /\ tx' = [tx EXCEPT ![p] = OpenTx(w.tx)]
                 /\ Continue(p, LinkPosition(policy, table, i + 1))

\* createLink's tx.Rollback() after a failed tx.Exec (lines 194-197): it
\* returns the rollback's error if there is one, else the statement's.
\* It finishes the sql.Tx; a transaction the server has not aborted holds
\* what it has written until this call.
CreateLinkRollback(p) ==
    /\ pc[p] = "rollback"
    /\ UNCHANGED <<locked, op, nops, History, broken>>
    /\ db' = Rollback(db, tx[p].rows)
    /\ tx' = [tx EXCEPT ![p] = ClosedTx("rolledback")]
    /\ \E rollbackFails \in BOOLEAN :
          Return(p, [Error(IF rollbackFails THEN ErrRollback ELSE loc[p].err,
                           loc[p].table, loc[p].i)
                       EXCEPT !.first = loc[p].err])

\* tx.Commit() (lines 81-88).  After a failed Commit the transaction is
\* done, so the tx.Rollback() of line 82 returns sql.ErrTxDone and that is
\* what Create returns.
Commit(p) ==
    /\ pc[p] = "commit"
    /\ UNCHANGED <<locked, op, nops, broken>>
    /\ \/ /\ BackendFails
          /\ tx' = [tx EXCEPT ![p] = ClosedTx("rolledback")]
          /\ Return(p, [Error(ErrTxDone, "commit", 0)
                            EXCEPT !.first = ErrBackend])
          /\ UNCHANGED <<db, History>>
       \/ /\ db' = CommitRows(db, tx[p].rows)
          /\ tx' = [tx EXCEPT ![p] = ClosedTx("committed")]
          /\ Return(p, Ok(<<>>))
          /\ live' = live \cup {op[p].policy}
          /\ UNCHANGED deleted

(***************************************************************************)
(* Get (lines 91-121) and getLinked (lines 167-185).                        *)
(***************************************************************************)
\* Get returns r.  Called by a caller of the store it returns to it;
\* called by FindPoliciesForSubject (inFind), that one returns the error,
\* or appends the policy and gets the next id (lines 157-164).  `locals`
\* are the locals of p so far.
GetReturns(p, r, locals, inFind) ==
    IF ~inFind \/ r.kind /= "ok"
    THEN Return(p, Read(Unnoticed(r, locals.failed)))
    ELSE LET policies == locals.policies \o r.policies
             ids == locals.ids
         IN  IF ids = <<>>
             THEN Return(p, Read(Unnoticed(Ok(policies), locals.failed)))
             ELSE /\ pc' = [pc EXCEPT ![p] = "get"]
                  /\ loc' = [loc EXCEPT ![p] =
                               [NoLocals EXCEPT !.policies = policies,
                                                !.id = Head(ids),
                                                !.ids = Tail(ids),
                                                !.failed = locals.failed]]
                  /\ UNCHANGED ret

\* s.db.QueryRow("SELECT ... FROM ladon_policy WHERE id=$1") and the
\* decoding of the conditions (lines 94-102).
QueryPolicy(p, id, locals, inFind) ==
    LET found == SelectPolicy(db, id)
    IN  \/ /\ BackendFails
           /\ GetReturns(p, Error(ErrBackend, PolicyTable, 0), locals, inFind)
        \/ /\ ~IsUUID(id)
           /\ GetReturns(p, Error(ErrInvalidUUID, PolicyTable, 0), locals, inFind)
        \/ /\ IsUUID(id) /\ found = {}
           /\ GetReturns(p, Error(ErrNotFound, PolicyTable, 0), locals, inFind)
        \/ /\ IsUUID(id)
           /\ \E r \in found :
                 /\ loc' = [loc EXCEPT ![p] = [locals EXCEPT
                       !.id = id,
                       !.table = SubjectTable,
                       !.p = [ZeroPolicy EXCEPT
                                !.id = r.id,
                                !.description = r.description,
                                !.effect = r.effect,
                                !.conditions = UnmarshalConditions(r.conditions)]]]
                 /\ pc' = [pc EXCEPT ![p] = "getLinked"]
                 /\ ret' = [ret EXCEPT ![p] = NoReturn]

\* Get called by a caller of the store.
Get(p, id) ==
    /\ Enter(p, Call("Get", ZeroPolicy, id, <<>>))
    /\ UNCHANGED <<db, tx, History, broken>>
    /\ QueryPolicy(p, id, NoLocals, FALSE)

\* Get called by FindPoliciesForSubject for the next id (line 158).
GetNext(p) ==
    /\ pc[p] = "get"
    /\ UNCHANGED <<db, tx, locked, op, nops, History, broken>>
    /\ QueryPolicy(p, loc[p].id, loc[p], TRUE)

\* The field of DefaultPolicy the templates of a table are assigned to
\* (lines 117-119).
WithLinked(policy, table, urns) ==
    IF table = SubjectTable THEN [policy EXCEPT !.subjects = urns]
    ELSE IF table = PermissionTable THEN [policy EXCEPT !.permissions = urns]
    ELSE [policy EXCEPT !.resources = urns]

\* getLinked for the subjects, the permissions and the resources in turn
\* (lines 104-115); after the last Get returns &p.
GetLinked(p) ==
    /\ pc[p] = "getLinked"
    /\ UNCHANGED <<db, tx, locked, op, nops, History>>
    /\ LET table == loc[p].table
           next == TableAfter(table)
           inFind == op[p].name = "Find"
       IN  \/ /\ BackendFails
              /\ GetReturns(p, Error(ErrBackend, table, 0), loc[p], inFind)
              /\ UNCHANGED broken
           \/ \E s \in Scanned(SelectLinked(db, table, loc[p].id)) :
                 LET policy == WithLinked(loc[p].p, table,
                                          Column(s.rows, "template"))
                     locals == [loc[p] EXCEPT
                                  !.failed = loc[p].failed \/ s.failed]
                 IN  /\ BreaksOff(s)
                     /\ IF next = NoTable
                        THEN GetReturns(p, Ok(<<policy>>), locals, inFind)
                        ELSE /\ loc' = [loc EXCEPT ![p] =
                                          [locals EXCEPT !.p = policy,
                                                         !.table = next]]
                             /\ UNCHANGED <<pc, ret>>

(***************************************************************************)
(* Delete (lines 123-126).                                                  *)
(***************************************************************************)
Delete(p, id) ==
    /\ Enter(p, Call("Delete", ZeroPolicy, id, <<>>))
    /\ UNCHANGED <<tx, broken>>
    /\ \/ /\ BackendFails
          /\ Return(p, Error(ErrBackend, PolicyTable, 0))
          /\ UNCHANGED <<db, live, deleted>>
       \/ /\ ~IsUUID(id)
          /\ Return(p, Error(ErrInvalidUUID, PolicyTable, 0))
          /\ UNCHANGED <<db, live, deleted>>
       \/ /\ IsUUID(id)
          /\ db' = DeleteRows(db, id)
          /\ Return(p, [Ok(<<>>) EXCEPT
                          !.count = Cardinality(SelectPolicy(db, id))])
          /\ live' = {q \in live : CanonUUID(q.id) /= CanonUUID(id)}
          /\ deleted' = deleted \cup
                {q \in live : CanonUUID(q.id) = CanonUUID(id)}

(***************************************************************************)
(* FindPoliciesForSubject (lines 128-165).                                  *)
(***************************************************************************)
\* find("SELECT policy FROM ladon_policy_subject WHERE $1 ~* ...") (line
\* 147): one id per matching subject row.
FindPoliciesForSubject(p, subject) ==
    /\ Enter(p, Call("Find", ZeroPolicy, <<>>, subject))
    /\ UNCHANGED <<db, tx, History>>
    /\ \/ /\ BackendFails
          /\ Return(p, Read(Error(ErrBackend, SubjectTable, 0)))
          /\ UNCHANGED broken
       \/ /\ \E s \in Scanned(SelectSubjects(db, subject)) :
                /\ BreaksOff(s)
                /\ loc' = [loc EXCEPT ![p] =
                          [NoLocals EXCEPT !.ids = Column(s.rows, "policy"),
                                           !.failed = s.failed]]
          /\ pc' = [pc EXCEPT ![p] = "findGlobals"]
          /\ ret' = [ret EXCEPT ![p] = NoReturn]

\* find("SELECT id FROM ladon_policy p LEFT JOIN ...") (line 151), then
\* ids := append(subjects, globals...) and the first Get of the loop.
FindGlobals(p) ==
    /\ pc[p] = "findGlobals"
    /\ UNCHANGED <<db, tx, locked, op, nops, History>>
    /\ \/ /\ BackendFails
          /\ Return(p, Read(Error(ErrBackend, PolicyTable, 0)))
          /\ UNCHANGED broken
       \/ \E s \in Scanned(SelectGlobals(db)) :
             LET ids == loc[p].ids \o Column(s.rows, "id")
                 failed == loc[p].failed \/ s.failed
             IN  /\ BreaksOff(s)
                 /\ IF ids = <<>>
                    THEN Return(p, Read(Unnoticed(Ok(<<>>), failed)))
                    ELSE /\ pc' = [pc EXCEPT ![p] = "get"]
                         /\ loc' = [loc EXCEPT ![p].id = Head(ids),
                                               ![p].ids = Tail(ids),
                                               ![p].failed = failed]
                         /\ UNCHANGED ret

(***************************************************************************)
(* Callers and the arguments they pass.                                     *)
(***************************************************************************)
\* Policy ids: two uuids, each also in its upper-case spelling, and a text
\* that is no uuid.
Id1 == <<"a", "1">>
Id1Upper == <<"A", "1">>
Id2 == <<"b", "2">>
Id2Upper == <<"B", "2">>
IdNoUUID == <<"p", "1">>
Ids == {Id1, Id1Upper, Id2Upper, IdNoUUID}

\* Templates: literal text, a fragment matching any non-empty text, and an
\* unterminated start delimiter.
TplA == <<"a">>
TplUpperA == <<"A">>
TplAny == <<"<", ".", "+", ">">>
TplOpen == <<"<", "a">>
TplView == <<"v">>
TplRes == <<"r">>

SomeConditions == Conditions(FALSE, <<"c">>)
NoConditions == Conditions(TRUE, <<>>)
EmptyConditions == Conditions(FALSE, <<>>)

\* The policies callers create: valid ones (two with the same uuid in
\* different spellings, one without subjects), one listing a resource
\* twice, one with a permission that does not compile, one whose id is no
\* uuid and one whose effect is neither allow nor deny.
PolicyFull ==
    Policy(Id1, <<"d">>, "allow", SomeConditions,
           <<TplA, TplAny>>, <<TplView>>, <<TplRes>>)
PolicyOne ==
    Policy(Id1, <<"d">>, "allow", SomeConditions,
           <<TplA>>, <<TplView>>, <<TplRes>>)
PolicyGlobal ==
    Policy(Id1Upper, <<>>, "deny", EmptyConditions,
           <<>>, <<TplRes>>, <<TplView>>)
PolicyUpper ==
    Policy(Id2Upper, <<>>, "deny", NoConditions,
           <<TplUpperA>>, <<TplA>>, <<TplRes, TplView>>)
PolicyTwice ==
    Policy(Id2, <<>>, "allow", NoConditions,
           <<TplUpperA>>, <<TplView>>, <<TplRes, TplRes>>)
PolicyOpen ==
    Policy(Id2, <<"d">>, "allow", NoConditions,
           <<TplView>>, <<TplOpen>>, <<TplRes>>)
PolicyNoUUID ==
    Policy(IdNoUUID, <<>>, "allow", NoConditions,
           <<TplA>>, <<TplView>>, <<TplRes>>)
PolicyMaybe ==
    Policy(Id1, <<>>, "maybe", NoConditions,
           <<TplA>>, <<TplView>>, <<TplRes>>)
PolicyNoEffect ==
    Policy(Id2, <<>>, "", NoConditions,
           <<TplA>>, <<TplView>>, <<TplRes>>)

Policies ==
    {PolicyFull, PolicyGlobal, PolicyUpper, PolicyTwice, PolicyOpen,
     PolicyNoUUID, PolicyMaybe, PolicyNoEffect}

Subjects == {<<"a">>, <<"b">>}

\* The arguments of concurrent callers: two policies under one uuid in two
\* spellings, one of them without subjects.
ConcurrentPolicies == {PolicyOne, PolicyGlobal}
ConcurrentIds == {Id1}
ConcurrentSubjects == {<<"a">>}

\* Callers invoke the operations concurrently.
Next ==
    \E p \in Procs :
        \/ nops < MaxOps /\ \E policy \in ConcurrentPolicies : Create(p, policy)
        \/ InsertPolicy(p)
        \/ CreateLink(p)
        \/ CreateLinkRollback(p)
        \/ Commit(p)
        \/ nops < MaxOps /\ \E id \in ConcurrentIds : Get(p, id)
        \/ GetNext(p)
        \/ GetLinked(p)
        \/ nops < MaxOps /\ \E id \in ConcurrentIds : Delete(p, id)
        \/ nops < MaxOps /\ \E subject \in ConcurrentSubjects :
              FindPoliciesForSubject(p, subject)
        \/ FindGlobals(p)

Spec == Init /\ [][Next]_vars

\* One operation at a time, all made by one caller: each operation runs
\* from its call to its return with nothing in between.
Caller == CHOOSE p \in Procs : \A q \in Procs : p <= q

NextSeq ==
    \/ nops < MaxSeqOps /\ \E policy \in Policies : Create(Caller, policy)
    \/ InsertPolicy(Caller)
    \/ CreateLink(Caller)
    \/ CreateLinkRollback(Caller)
    \/ Commit(Caller)
    \/ nops < MaxSeqOps /\ \E id \in Ids : Get(Caller, id)
    \/ GetNext(Caller)
    \/ GetLinked(Caller)
    \/ nops < MaxSeqOps /\ \E id \in Ids : Delete(Caller, id)
    \/ nops < MaxSeqOps /\ \E subject \in Subjects :
          FindPoliciesForSubject(Caller, subject)
    \/ FindGlobals(Caller)

SpecSeq == Init /\ [][NextSeq]_vars

(***************************************************************************)
(* Properties.                                                              *)
(***************************************************************************)
Range(seq) == {seq[i] : i \in 1..Len(seq)}

\* The last operation of p was `name` and has returned.
Returned(p, name) == op[p].name = name /\ pc[p] = "idle"

\* No call of the backend failed in the operation p has returned from,
\* noticed by it or not.
BackendWorked(p) == ret[p].first /= ErrBackend

\* No policy row and no link row of the id among the rows.
NoRowsFor(rows, id) ==
    /\ SelectPolicy(rows, id) = {}
    /\ \A t \in LinkTables : SelectLinked(rows, t, id) = {}

SameId(a, b) == CanonUUID(a) = CanonUUID(b)

\* The policy has the templates of q, dimension by dimension, as sets.
SameTemplates(policy, q) ==
    /\ Range(policy.subjects) = Range(q.subjects)
    /\ Range(policy.permissions) = Range(q.permissions)
    /\ Range(policy.resources) = Range(q.resources)

\* The ids of the policies an operation returned.
ReturnedIds(p) == {policy.id : policy \in Range(ret[p].policies)}

\* The rows stored for the policy q: the policy row and one link row for
\* each of its templates.
RowsOf(q) ==
    [t \in Tables |->
        IF t = PolicyTable
        THEN {PolicyRow(CanonUUID(q.id), q.description, q.effect,
                        MarshalConditions(q.conditions))}
        ELSE {LinkRow(CanonUUID(q.id), tpl, CompileRegex(tpl).re) :
                 tpl \in Range(Templates(q, t))}]

\* The rows stored under the id.
RowsFor(rows, id) ==
    [t \in Tables |->
        IF t = PolicyTable THEN SelectPolicy(rows, id)
        ELSE SelectLinked(rows, t, id)]

\* The rows of the policies in `created`, the policies whose Create has
\* committed, that are stored under the id.
RowsOfCommitted(created, id) ==
    [t \in Tables |->
        UNION {RowsOf(q)[t] : q \in {x \in created : SameId(x.id, id)}}]

\* C1 as amended: when the insertion of a link entry fails, at whatever
\* position, Create returns an error and, as it returns, the store holds
\* no row written by it: the rows under the policy's id are those of a
\* policy another Create has committed under that id, or none.
FailedCreateStoresNothing ==
    [][\A p \in Procs :
          (pc[p] = "rollback" /\ pc'[p] = "idle")
          => /\ ret'[p].kind = "error"
             /\ ret'[p].err /= ErrNone
             /\ db' = db
             /\ RowsFor(db', op[p].policy.id)
                   = RowsOfCommitted(live', op[p].policy.id)]_vars

\* C1 as claimed: when the insertion of a link entry fails, at whatever
\* position, Create returns an error and, as it returns, the store holds no
\* policy row and no link entry of the policy's id.
CreateIsAllOrNothing ==
    [][\A p \in Procs :
          (pc[p] = "rollback" /\ pc'[p] = "idle")
          => /\ ret'[p].kind = "error"
             /\ ret'[p].err /= ErrNone
             /\ NoRowsFor(db', op[p].policy.id)]_vars

\* A Create has failed on its first resource, after the policy row, the
\* subjects and the permissions were inserted, and nothing of it is stored.
CreateFailedMidway ==
    \E p \in Procs :
        /\ Returned(p, "Create")
        /\ ret[p].kind = "error"
        /\ ret[p].stage = ResourceTable
        /\ op[p].policy.subjects /= <<>>
        /\ NoRowsFor(db, op[p].policy.id)

\* What a reader has read so far: the policy Get is assembling, the
\* policies FindPoliciesForSubject has collected, the policies returned.
PoliciesRead(p) ==
    Range(ret[p].policies) \cup Range(loc[p].policies)
        \cup (IF pc[p] = "getLinked" THEN {loc[p].p} ELSE {})

\* The ids FindPoliciesForSubject has read and not yet looked up.
IdsRead(p) ==
    Range(loc[p].ids) \cup (IF pc[p] = "get" THEN {loc[p].id} ELSE {})

\* The policy consists of committed data: some Create of its id has
\* committed, and each of its templates is one of such a Create.
IsCommittedData(policy) ==
    LET sources == {q \in Created : CanonUUID(q.id) = policy.id}
    IN  /\ sources /= {}
        /\ \A t \in LinkTables :
              Range(Templates(policy, t)) \subseteq
                  UNION {Range(Templates(q, t)) : q \in sources}

\* C2: a reader sees nothing of a Create that has not committed: every
\* policy and every id that Get and FindPoliciesForSubject read or return
\* was written by a Create that has committed by then; so a read that ends
\* before the commit, or beside a Create that rolls back, finds nothing of
\* it.
UncommittedIsInvisible ==
    \A p \in Procs :
        /\ \A policy \in PoliciesRead(p) : IsCommittedData(policy)
        /\ \A id \in IdsRead(p) : \E q \in Created : CanonUUID(q.id) = id

\* A Get has returned NotFound for an id that an open transaction had
\* inserted at that moment.
GetMissedUncommitted ==
    \E p \in Procs :
        /\ Returned(p, "Get")
        /\ ret[p].err = ErrNotFound
        /\ CanonUUID(op[p].id) \in ret[p].hidden

\* C3: a Get that returns without error, no call of the backend having
\* failed in it, returns the template sets of a policy that was created
\* with that id, whatever Create and Delete calls run beside it.
GetIsNeverHalfPopulated ==
    \A p \in Procs :
        (Returned(p, "Get") /\ ret[p].kind = "ok" /\ BackendWorked(p))
        => \E q \in Created :
              /\ SameId(q.id, op[p].id)
              /\ SameTemplates(ret[p].policies[1], q)

\* The policies of the round trip: subjects, permissions and resources are
\* not empty and list no template twice.
HasAllDimensions(q) ==
    \A t \in LinkTables :
        /\ Templates(q, t) /= <<>>
        /\ Cardinality(Range(Templates(q, t))) = Len(Templates(q, t))

\* What Get(q.id) returns for the stored policy q, but for the id.
ReturnsFieldsOf(p, q) ==
    /\ ret[p].kind = "ok"
    /\ Len(ret[p].policies) = 1
    /\ LET policy == ret[p].policies[1]
       IN  /\ policy.description = q.description
           /\ policy.effect = q.effect
           /\ policy.conditions.items = q.conditions.items
           /\ SameTemplates(policy, q)
           /\ \A t \in LinkTables :
                 Len(Templates(policy, t)) = Len(Templates(q, t))

\* A Get of the id under which the stored policy q was created has
\* returned a record.
GotStored(p, q) ==
    /\ Returned(p, "Get")
    /\ op[p].id = q.id
    /\ ret[p].kind = "ok"
    /\ HasAllDimensions(q)

\* C4: the record that Get(q.id) returns after Create(q), no Delete in
\* between, has q's id, description, effect, conditions and template sets,
\* each dimension in its own field.
RoundTripKeepsId ==
    \A q \in live :
        GotStored(Caller, q)
        => /\ ReturnsFieldsOf(Caller, q)
           /\ ret[Caller].policies[1].id = q.id

\* The stored policies without a subject entry.
GlobalIds(rows) ==
    {r.id : r \in {x \in rows[PolicyTable] :
                      SelectLinked(rows, SubjectTable, x.id) = {}}}

\* C5: the result of FindPoliciesForSubject, whatever the subject, holds
\* every stored policy that has no subject entry.
GlobalsMatchEverySubject ==
    (Returned(Caller, "Find") /\ ret[Caller].kind = "ok")
    => GlobalIds(db) \subseteq ReturnedIds(Caller)

\* The stored policies with a subject entry whose compiled pattern matches
\* the subject.
MatchingIds(rows, subject) ==
    {r.policy : r \in {x \in rows[SubjectTable] :
                          RegexMatch(x.compiled, subject, FALSE)}}

\* C6: the ids FindPoliciesForSubject returns are those of the stored
\* policies with a subject entry whose compiled pattern matches the
\* subject, and those of the stored policies without a subject entry.
FindReturnsMatchesAndGlobals ==
    (Returned(Caller, "Find") /\ ret[Caller].kind = "ok"
        /\ BackendWorked(Caller))
    => ReturnedIds(Caller) =
          MatchingIds(db, op[Caller].subject) \cup GlobalIds(db)

\* C7: the list FindPoliciesForSubject returns holds each policy id once.
FindReturnsNoDuplicates ==
    (Returned(Caller, "Find") /\ ret[Caller].kind = "ok"
        /\ BackendWorked(Caller))
    => \A i, j \in 1..Len(ret[Caller].policies) :
          i /= j => ret[Caller].policies[i].id /= ret[Caller].policies[j].id

\* The policy has a template the compiler rejects.
HasBadTemplate(q) ==
    \E t \in LinkTables : \E tpl \in Range(Templates(q, t)) :
        ~CompileRegex(tpl).ok

\* C8: Create of a policy with a template that does not compile returns an
\* error, and nothing of the policy is stored.
BadTemplateIsAnError ==
    (op[Caller].name = "Create" /\ pc[Caller] = "idle"
        /\ HasBadTemplate(op[Caller].policy))
    => /\ ret[Caller].kind = "error"
       /\ (~\E q \in live : SameId(q.id, op[Caller].id))
             => NoRowsFor(db, op[Caller].id)

\* C9: for every id, Delete returns no error, whether the id is stored or
\* not, a first or a second time, and a Get of an id that is not stored,
\* deleted or never created, returns NotFound.
DeleteIsIdempotent ==
    /\ Returned(Caller, "Delete") => ret[Caller].kind = "ok"
    /\ (Returned(Caller, "Get")
           /\ ~\E q \in live : SameId(q.id, op[Caller].id))
       => ret[Caller].err = ErrNotFound

\* C10: every link entry refers to a stored policy row, and the rows
\* stored under an id are those of the policy created last under it, none
\* of a policy deleted before.
DeleteCascades ==
    /\ \A t \in LinkTables : \A r \in db[t] :
          \E x \in db[PolicyTable] : x.id = r.policy
    /\ \A t \in Tables : db[t] = UNION {RowsOf(q)[t] : q \in live}
    /\ \A q1, q2 \in live : SameId(q1.id, q2.id) => q1 = q2

\* A policy was deleted and another one created under the same id.
Recreated ==
    \E q \in live : \E old \in deleted :
        /\ SameId(q.id, old.id)
        /\ ~SameTemplates(q, old)
        /\ db[SubjectTable] = RowsOf(q)[SubjectTable]

\* The Create of p returns on this step.
CreateReturns(p) ==
    /\ op[p].name = "Create"
    /\ pc[p] /= "idle"
    /\ pc'[p] = "idle"

\* C11: a Create of an id that is stored returns an error and leaves the
\* rows as they are, and a Create that succeeds leaves under its id the
\* rows of its own policy and no others; so of two Create calls of one id,
\* one after the other or at the same time, at most one succeeds and
\* nothing of the other is stored.
CreateOfStoredIdIsRejected ==
    [][\A p \in Procs :
          CreateReturns(p)
          => /\ SelectPolicy(db, op[p].id) /= {}
                => (ret'[p].kind = "error" /\ db' = db)
             /\ ret'[p].kind = "ok"
                => RowsFor(db', op[p].id) = RowsOf(op[p].policy)]_vars

\* Two callers have created different policies under one id: one has
\* succeeded, the other was rejected for the key, and the rows are those
\* of the first.
SecondCreateRejected ==
    \E p, q \in Procs :
        /\ p /= q
        /\ Returned(p, "Create") /\ ret[p].kind = "ok"
        /\ Returned(q, "Create") /\ ret[q].err = ErrUnique
        /\ ret[q].stage = PolicyTable
        /\ SameId(op[p].id, op[q].id)
        /\ op[p].policy /= op[q].policy
        /\ RowsFor(db, op[p].id) = RowsOf(op[p].policy)

\* C12: the error Create returns is that of the first call that failed in
\* it, the insert of the policy row, the insert of a link or the commit; a
\* rollback that fails as well does not take its place.
CreateReturnsFirstFailure ==
    (Returned(Caller, "Create") /\ ret[Caller].kind = "error")
    => ret[Caller].err = ret[Caller].first

\* C13: a FindPoliciesForSubject whose two id queries succeeded returns
\* without error, whatever Delete calls run beside it, and each policy of
\* its list has the template sets of a policy created under that id; it
\* never returns NotFound.
FindSurvivesDelete ==
    \A p \in Procs :
        (Returned(p, "Find") /\ BackendWorked(p))
        => /\ ret[p].err /= ErrNotFound
           /\ ret[p].kind = "ok"
           /\ \A policy \in Range(ret[p].policies) :
                 \E q \in Created :
                    CanonUUID(q.id) = policy.id /\ SameTemplates(policy, q)

\* C14: when no stored policy has a subject entry whose pattern matches the
\* subject and no stored policy is without subjects, as in the empty store,
\* FindPoliciesForSubject returns the empty list and no error.
EmptyMatchIsSuccess ==
    (Returned(Caller, "Find") /\ BackendWorked(Caller)
        /\ MatchingIds(db, op[Caller].subject) = {}
        /\ GlobalIds(db) = {})
    => /\ ret[Caller].kind = "ok"
       /\ ret[Caller].policies = <<>>

\* The policy lists a template twice within one dimension.
HasRepeatedTemplate(q) ==
    \E t \in LinkTables :
        Cardinality(Range(Templates(q, t))) < Len(Templates(q, t))

\* C15: no link table holds two entries of one template and policy, and a
\* Create of a policy that lists a template twice within one dimension
\* returns an error and stores no row of it.
LinksAreUnique ==
    /\ \A t \in LinkTables : \A r1, r2 \in db[t] :
          (r1.template = r2.template /\ r1.policy = r2.policy) => r1 = r2
    /\ \A q \in live : ~HasRepeatedTemplate(q)
    /\ (Returned(Caller, "Create") /\ HasRepeatedTemplate(op[Caller].policy))
       => /\ ret[Caller].kind = "error"
          /\ (~\E q \in live : SameId(q.id, op[Caller].id))
                => NoRowsFor(db, op[Caller].id)

\* A Create was rejected at the second, repeated resource of its policy,
\* and nothing of the policy is stored.
RepeatedTemplateRejected ==
    /\ Returned(Caller, "Create")
    /\ HasRepeatedTemplate(op[Caller].policy)
    /\ ret[Caller].err = ErrUnique
    /\ ret[Caller].stage = ResourceTable
    /\ ret[Caller].i = 2
    /\ NoRowsFor(db, op[Caller].id)

Effects == {"allow", "deny"}

\* C16: every stored policy has the effect allow or deny, and a Create of
\* a policy with no effect or another one returns an error and stores no
\* row of it.
EffectIsAllowOrDeny ==
    /\ \A r \in db[PolicyTable] : r.effect \in Effects
    /\ \A q \in live : q.effect \in Effects
    /\ (Returned(Caller, "Create") /\ op[Caller].policy.effect \notin Effects)
       => /\ ret[Caller].kind = "error"
          /\ (~\E q \in live : SameId(q.id, op[Caller].id))
                => NoRowsFor(db, op[Caller].id)

\* A Create of a policy without effect was rejected by the CHECK of the
\* policy table, and nothing of the policy is stored.
NoEffectRejected ==
    /\ Returned(Caller, "Create")
    /\ op[Caller].policy.effect = ""
    /\ ret[Caller].err = ErrCheck
    /\ NoRowsFor(db, op[Caller].id)

\* C17: when Create has returned, on whatever path, the transaction it
\* began is committed or rolled back and none is left open; and it is
\* committed only when Create returns without error.
CreateFinishesItsTransaction ==
    (op[Caller].name = "Create" /\ pc[Caller] = "idle")
    => /\ tx[Caller].state \notin {"open", "aborted"}
       /\ tx[Caller].state = "committed" => ret[Caller].kind = "ok"

\* The template is literal text: it has no delimited fragment.
IsLiteral(tpl) == \A i \in 1..Len(tpl) : tpl[i] /= StartDelimiter

\* C18: a stored policy whose only subject template is a literal text is
\* returned by FindPoliciesForSubject only for the subject equal to that
\* text, not for one that differs from it in letter case or contains it.
LiteralMatchesOnlyItself ==
    (Returned(Caller, "Find") /\ ret[Caller].kind = "ok"
        /\ BackendWorked(Caller))
    => \A q \in live :
          (/\ CanonUUID(q.id) \in ReturnedIds(Caller)
           /\ Len(q.subjects) = 1
           /\ IsLiteral(q.subjects[1]))
          => op[Caller].subject = q.subjects[1]

\* The step is one of caller p.
Moved(p) ==
    <<pc[p], op[p], loc[p], ret[p], tx[p]>>
        /= <<pc'[p], op'[p], loc'[p], ret'[p], tx'[p]>>

\* The step of p is the commit that ends a successful Create.
Commits(p) ==
    pc[p] = "commit" /\ pc'[p] = "idle" /\ ret'[p].kind = "ok"

\* The step of p belongs to a Get, to a FindPoliciesForSubject, to a Create
\* other than its successful commit, or is the Delete of an id that is not
\* stored.
IsFrameStep(p) ==
    \/ op'[p].name \in {"Get", "Find"}
    \/ op'[p].name = "Create" /\ ~Commits(p)
    \/ op'[p].name = "Delete" /\ SelectPolicy(db, op'[p].id) = {}

\* C19: a Create that returns an error, a Get, a FindPoliciesForSubject
\* and a Delete of an id that is not stored leave every stored policy row
\* and link entry as it was.
FailedAndReadOnlyChangeNothing ==
    [][\A p \in Procs : (Moved(p) /\ IsFrameStep(p)) => db' = db]_vars

\* A Create has failed at a link, after rows of it were written, while
\* another policy is stored with all its rows.
FailedBesideStored ==
    /\ Returned(Caller, "Create")
    /\ ret[Caller].kind = "error"
    /\ ret[Caller].stage \in LinkTables
    /\ \E q \in live :
          /\ ~SameId(q.id, op[Caller].id)
          /\ RowsFor(db, q.id) = RowsOf(q)
          /\ q.subjects /= <<>>
====
